---- MODULE Spec2Model ----
(***************************************************************************)
(* Model of the playlist generation service (services/ai/generation.ts)    *)
(* and of the LLM response parsers it relies on (services/ai/openai.ts).   *)
(*                                                                         *)
(* Numbers: sub-scores and popularities are integers; the weighted sum of  *)
(* calculateOverallMatch is carried in hundredths so that Math.round is    *)
(* exact.  Strings that the code inspects character by character (track    *)
(* and artist names, recently played lines) are sequences of one-character *)
(* strings; identifiers and prompts, which the code only compares or       *)
(* tests for truthiness, are plain strings.                                *)
(***************************************************************************)
EXTENDS Integers, Sequences, FiniteSets, TLC

VARIABLES storage, now, call, outcome, page

vars == <<storage, now, call, outcome, page>>

(***************************************************************************)
(* JavaScript values that may be absent or of the wrong type.              *)
(***************************************************************************)
Undefined == [t |-> "undefined", v |-> 0]

Num(n) == [t |-> "number", v |-> n]

\* typeof x === 'number' && !isNaN(x); JSON.parse never yields NaN
IsNumber(x) == x.t = "number"

Min(a, b) == IF a < b THEN a ELSE b

Max(a, b) == IF a > b THEN a ELSE b

\* Math.max(0, Math.min(100, x))
\* a variant that leaves the score as the LLM gave it
Clamp100_Unclamped(x) == x

Clamp100(x) == Max(0, Min(100, x))

(***************************************************************************)
(* Character strings.                                                      *)
(***************************************************************************)
LowerChar(c) ==
  CASE c = "G" -> "g"
    [] c = "H" -> "h"
    [] c = "I" -> "i"
    [] c = "O" -> "o"
    [] c = "U" -> "u"
    [] c = "Z" -> "z"
    [] c = "K" -> "k"
    [] c = "A" -> "a"
    [] OTHER -> c

toLowerCase(s) == [i \in 1..Len(s) |-> LowerChar(s[i])]

\* String.prototype.includes
includes(hay, needle) ==
  \E i \in 0..(Len(hay) - Len(needle)) : SubSeq(hay, i + 1, i + Len(needle)) = needle

RECURSIVE join(_, _)
join(parts, sep) ==
  IF parts = <<>> THEN <<>>
  ELSE IF Len(parts) = 1 THEN parts[1]
  ELSE parts[1] \o sep \o join(Tail(parts), sep)

(***************************************************************************)
(* The catalog: the tracks a search can return.                            *)
(***************************************************************************)
T1 == [id |-> "t1", name |-> <<"G", "o">>, artists |-> << <<"Z", "e", "d">> >>, popularity |-> Num(75)]

T2 == [id |-> "t2", name |-> <<"H", "i">>, artists |-> << <<"K", "a", "i">> >>, popularity |-> Num(0)]

T3 == [id |-> "t3", name |-> <<"U", "p">>, artists |-> << <<"A", "n">>, <<"Z", "e", "d">> >>, popularity |-> Undefined]

T4 == [id |-> "t4", name |-> <<"O", "h">>, artists |-> << <<"A", "n">> >>, popularity |-> Num(100)]

Catalog == {T1, T2, T3, T4}

CatalogIds == {t.id : t \in Catalog}

\* a recently played item that is not among the candidates
OtherTrack == [id |-> "r9", name |-> <<"H", "I", " ", "H", "I">>, artists |-> << <<"I", "k", "o">> >>, popularity |-> Num(40)]

\* getUserContext: `${item.track.name} by ${artists.join(', ')}`
FormatRecent(track) == track.name \o <<" ", "b", "y", " ">> \o join(track.artists, <<",", " ">>)

(***************************************************************************)
(* calculateOverallMatch                                                   *)
(***************************************************************************)
tasteWeight == 30

moodWeight == 30

popularityWeight == 25

playFrequencyWeight == 15

\* a variant of the loop body that also stops at the first artist match
PlayFrequencyStep_StopAtArtist(acc, recentTrack, trackLower, artistsLower) ==
  LET recentLower == toLowerCase(recentTrack)
  IN IF acc[2] THEN acc
     ELSE IF includes(recentLower, trackLower) THEN <<100, TRUE>>
     ELSE IF \E i \in 1..Len(artistsLower) : includes(recentLower, artistsLower[i])
          THEN <<Max(acc[1], 60), TRUE>>
          ELSE acc

\* one pass of the loop body over a recent line; acc = <<score, stopped>>
PlayFrequencyStep(acc, recentTrack, trackLower, artistsLower) ==
  LET recentLower == toLowerCase(recentTrack)
  IN IF acc[2] THEN acc
     ELSE IF includes(recentLower, trackLower) THEN <<100, TRUE>>
     ELSE IF \E i \in 1..Len(artistsLower) : includes(recentLower, artistsLower[i])
          THEN <<Max(acc[1], 60), FALSE>>
          ELSE acc

RECURSIVE PlayFrequencyLoop(_, _, _, _)
PlayFrequencyLoop(acc, recentlyPlayed, trackLower, artistsLower) ==
  IF recentlyPlayed = <<>> THEN acc
  ELSE PlayFrequencyLoop(PlayFrequencyStep(acc, Head(recentlyPlayed), trackLower, artistsLower),
                         Tail(recentlyPlayed), trackLower, artistsLower)

playFrequencyScore(trackName, artistNames, recentlyPlayed) ==
  PlayFrequencyLoop(<<0, FALSE>>, recentlyPlayed, toLowerCase(trackName),
                    [i \in 1..Len(artistNames) |-> toLowerCase(artistNames[i])])[1]

\* a variant that rounds up (Math.ceil)
RoundHundredths_Ceil(h) == (h + 99) \div 100

\* Math.round of a value given in hundredths
RoundHundredths(h) == (h + 50) \div 100

calculateOverallMatch(tasteScore, moodScore, popularity, trackName, artistNames, recentlyPlayed) ==
  LET popularityScore == Min(100, popularity)
      pf == playFrequencyScore(trackName, artistNames, recentlyPlayed)
  IN RoundHundredths(tasteScore * tasteWeight + moodScore * moodWeight
                     + popularityScore * popularityWeight + pf * playFrequencyWeight)

\* track.popularity || 50
PopularityOrDefault(track) ==
  IF IsNumber(track.popularity) /\ track.popularity.v # 0 THEN track.popularity.v ELSE 50

(***************************************************************************)
(* safeParsePlaylistJSON.  An LLM response content is                      *)
(*   [kind |-> "text"]                       not JSON: JSON.parse throws   *)
(*   [kind |-> "object", tracks |-> x]       a JSON object whose tracks    *)
(*      field x is absent (NoTracks), an array [t |-> "array", v |->       *)
(*      entries], or a non-array value [t |-> "number"|"string", ...].     *)
(* An entry of the array is JSON null ([t |-> "null"]) or an object with   *)
(* spotifyId ("" when missing), tasteAlignment.score and moodFit.score.    *)
(***************************************************************************)
Arr(s) == [t |-> "array", v |-> s]

\* a response object without a tracks field
NoTracks == [t |-> "undefined", v |-> <<>>]

Entry(id, taste, mood) == [t |-> "object", spotifyId |-> id, taste |-> taste, mood |-> mood]

NullEntry == [t |-> "null", spotifyId |-> "", taste |-> Undefined, mood |-> Undefined]

ParseTrack(track) ==
  LET tasteScore == IF IsNumber(track.taste) THEN Clamp100(track.taste.v) ELSE 75
      moodScore == IF IsNumber(track.mood) THEN Clamp100(track.mood.v) ELSE 80
  IN [spotifyId |-> track.spotifyId,
      tasteAlignment |-> [score |-> Num(tasteScore)],
      moodFit |-> [score |-> Num(moodScore)],
      overallMatch |-> Undefined]

safeParsePlaylistJSON(content) ==
  IF content.kind = "text" THEN [tracks |-> Arr(<<>>)]
  ELSE IF content.tracks.t = "array"
       THEN IF \E i \in 1..Len(content.tracks.v) : content.tracks.v[i].t = "null"
            THEN [tracks |-> Arr(<<>>)]
            ELSE [tracks |-> Arr([i \in 1..Len(content.tracks.v) |-> ParseTrack(content.tracks.v[i])])]
       ELSE IF content.tracks.t = "undefined" THEN [tracks |-> Arr(<<>>)]
       ELSE [tracks |-> content.tracks]

(***************************************************************************)
(* generatePlaylist, step 7: the final track list.                         *)
(* candidatesByQuery is the sequence of the per-query result lists, in     *)
(* insertion order.  A JavaScript Map keeps the position of the first      *)
(* insertion of a key and the value of the last one.                       *)
(***************************************************************************)
MapHas(m, id) == \E i \in 1..Len(m) : m[i].id = id

MapGet(m, id) == m[CHOOSE i \in 1..Len(m) : m[i].id = id]

MapSet(m, track) ==
  IF MapHas(m, track.id)
  THEN [i \in 1..Len(m) |-> IF m[i].id = track.id THEN track ELSE m[i]]
  ELSE Append(m, track)

RECURSIVE MapSetAll(_, _)
MapSetAll(m, tracks) ==
  IF tracks = <<>> THEN m ELSE MapSetAll(MapSet(m, Head(tracks)), Tail(tracks))

RECURSIVE BuildTrackMap(_, _)
BuildTrackMap(m, lists) ==
  IF lists = <<>> THEN m ELSE BuildTrackMap(MapSetAll(m, Head(lists)), Tail(lists))

\* candidatesByQuery.forEach(tracks => tracks.forEach(track => trackMap.set(track.id, track)))
trackMapOf(candidatesByQuery) == BuildTrackMap(<<>>, candidatesByQuery)

ArtistNames(track) == track.artists

\* the recommendation pushed for a ranked entry that resolved to `track`
RankedRecommendation(rec, track, recentTrackIds) ==
  LET tasteScore == IF IsNumber(rec.tasteAlignment.score)
                    THEN Clamp100(rec.tasteAlignment.score.v) ELSE 75
      moodScore == IF IsNumber(rec.moodFit.score)
                   THEN Clamp100(rec.moodFit.score.v) ELSE 80
  IN [spotifyId |-> rec.spotifyId,
      tasteAlignment |-> [score |-> Num(tasteScore)],
      moodFit |-> [score |-> Num(moodScore)],
      overallMatch |-> Num(calculateOverallMatch(tasteScore, moodScore, PopularityOrDefault(track),
                                                 track.name, ArtistNames(track), recentTrackIds))]

\* rec.spotifyId && trackMap.has(rec.spotifyId)
Resolves(rec, trackMap) == rec.spotifyId # "" /\ MapHas(trackMap, rec.spotifyId)

\* for (const rec of rankedPlaylist.tracks) { ... }; acc = [tracks, recommendations]
RECURSIVE RankedWalk(_, _, _, _)
RankedWalk(acc, recs, trackMap, recentTrackIds) ==
  IF recs = <<>> THEN acc
  ELSE LET rec == Head(recs)
           next == IF Resolves(rec, trackMap)
                   THEN [tracks |-> Append(acc.tracks, MapGet(trackMap, rec.spotifyId)),
                         recommendations |-> Append(acc.recommendations,
                            RankedRecommendation(rec, MapGet(trackMap, rec.spotifyId), recentTrackIds))]
                   ELSE acc
       IN RankedWalk(next, Tail(recs), trackMap, recentTrackIds)

\* a variant whose filler recommendation carries no identifier
FillerRecommendation_NoId(track, recentTrackIds) ==
  [spotifyId |-> "",
   tasteAlignment |-> [score |-> Num(70)],
   moodFit |-> [score |-> Num(75)],
   overallMatch |-> Num(calculateOverallMatch(70, 75, PopularityOrDefault(track),
                                              track.name, ArtistNames(track), recentTrackIds))]

\* the default recommendation of a filler track
FillerRecommendation(track, recentTrackIds) ==
  [spotifyId |-> track.id,
   tasteAlignment |-> [score |-> Num(70)],
   moodFit |-> [score |-> Num(75)],
   overallMatch |-> Num(calculateOverallMatch(70, 75, PopularityOrDefault(track),
                                              track.name, ArtistNames(track), recentTrackIds))]

\* !remainingIds.has(track.id) && finalTracks.length < preferences.playlistLength
MayFill(acc, track, playlistLength) ==
  /\ \A i \in 1..Len(acc.tracks) : acc.tracks[i].id # track.id
  /\ Len(acc.tracks) < playlistLength

\* a variant that puts the filler tracks in front of the ranked ones (unshift)
RECURSIVE Backfill_InFront(_, _, _, _)
Backfill_InFront(acc, allTracksArray, playlistLength, recentTrackIds) ==
  IF allTracksArray = <<>> THEN acc
  ELSE LET track == Head(allTracksArray)
           next == IF MayFill(acc, track, playlistLength)
                   THEN [tracks |-> <<track>> \o acc.tracks,
                         recommendations |-> <<[spotifyId |-> track.id,
                                                tasteAlignment |-> [score |-> Num(70)],
                                                moodFit |-> [score |-> Num(75)],
                                                overallMatch |-> Num(0)]>> \o acc.recommendations]
                   ELSE acc
       IN Backfill_InFront(next, Tail(allTracksArray), playlistLength, recentTrackIds)

\* for (const track of allTracksArray) { ... }
RECURSIVE Backfill(_, _, _, _)
Backfill(acc, allTracksArray, playlistLength, recentTrackIds) ==
  IF allTracksArray = <<>> THEN acc
  ELSE LET track == Head(allTracksArray)
           next == IF MayFill(acc, track, playlistLength)
                   THEN [tracks |-> Append(acc.tracks, track),
                         recommendations |-> Append(acc.recommendations,
                                                    FillerRecommendation(track, recentTrackIds))]
                   ELSE acc
       IN Backfill(next, Tail(allTracksArray), playlistLength, recentTrackIds)

\* the final validation pass over one recommendation
ValidateRecommendation(rec) ==
  LET tasteScore == IF IsNumber(rec.tasteAlignment.score) THEN rec.tasteAlignment.score.v ELSE 75
      moodScore == IF IsNumber(rec.moodFit.score) THEN rec.moodFit.score.v ELSE 80
      overallMatch == IF IsNumber(rec.overallMatch) THEN rec.overallMatch.v
                      ELSE (tasteScore + moodScore + 1) \div 2
  IN [spotifyId |-> rec.spotifyId,
      tasteAlignment |-> [score |-> Num(tasteScore)],
      moodFit |-> [score |-> Num(moodScore)],
      overallMatch |-> Num(overallMatch)]

\* the validation pass and the result: [threw, tracks, recommendations, rankedCount]
ValidatedPlaylist(filled, rankedCount) ==
  [threw |-> FALSE,
   tracks |-> filled.tracks,
   recommendations |-> [i \in 1..Len(filled.recommendations) |->
                          ValidateRecommendation(filled.recommendations[i])],
   rankedCount |-> rankedCount]

\* if (finalTracks.length < preferences.playlistLength) { backfill }
FillPlaylist(ranked, trackMap, playlistLength, recentTrackIds) ==
  ValidatedPlaylist(IF Len(ranked.tracks) < playlistLength
                    THEN Backfill(ranked, trackMap, playlistLength, recentTrackIds)
                    ELSE ranked,
                    Len(ranked.tracks))

EmptyPlaylist == [tracks |-> <<>>, recommendations |-> <<>>]

BuildFromMap(trackMap, tracks, playlistLength, recentTrackIds) ==
  IF tracks.t \notin {"array", "string"}
  THEN \* for...of over a value that is not iterable: TypeError
       [threw |-> TRUE, tracks |-> <<>>, recommendations |-> <<>>, rankedCount |-> 0]
  ELSE \* a string is iterated character by character: no element has a spotifyId
       FillPlaylist(RankedWalk(EmptyPlaylist, IF tracks.t = "array" THEN tracks.v ELSE <<>>,
                               trackMap, recentTrackIds),
                    trackMap, playlistLength, recentTrackIds)

\* step 7 and the validation pass
BuildPlaylist(candidatesByQuery, rankedPlaylist, playlistLength, recentTrackIds) ==
  BuildFromMap(trackMapOf(candidatesByQuery), rankedPlaylist.tracks, playlistLength, recentTrackIds)

(***************************************************************************)
(* Mood analysis (analyzeMoodFromChat).  Valence and energy are in tenths. *)
(* A parsed response is returned as it is: `present` lists the fields the  *)
(* JSON object carries.                                                    *)
(***************************************************************************)
MoodFields == {"startPoint", "endPoint", "moodDescription", "suggestedGenres"}

FallbackMood ==
  [present |-> MoodFields,
   startPoint |-> [valence |-> 0, energy |-> 5],
   endPoint |-> [valence |-> 0, energy |-> 5],
   moodDescription |-> "Unable to analyze",
   suggestedGenres |-> <<"pop">>,
   shouldAskFollowUp |-> TRUE,
   followUpQuestion |-> "Could you tell me more about how you're feeling?"]

HypeMood ==
  [present |-> MoodFields,
   startPoint |-> [valence |-> 2, energy |-> 5],
   endPoint |-> [valence |-> 8, energy |-> 9],
   moodDescription |-> "hype",
   suggestedGenres |-> <<"edm", "pop">>,
   shouldAskFollowUp |-> FALSE,
   followUpQuestion |-> ""]

\* the JSON object {} (also what an empty content is replaced by)
EmptyObjectMood ==
  [present |-> {},
   startPoint |-> [valence |-> 0, energy |-> 0],
   endPoint |-> [valence |-> 0, energy |-> 0],
   moodDescription |-> "",
   suggestedGenres |-> <<>>,
   shouldAskFollowUp |-> FALSE,
   followUpQuestion |-> ""]

\* a variant without the fallback of the catch block
analyzeMoodFromChat_NoFallback(content) == content.value

analyzeMoodFromChat(content) ==
  IF content.kind = "text" THEN FallbackMood ELSE content.value

\* the prompt templates of the later stages read startPoint.valence,
\* endPoint.energy and suggestedGenres.join(...): a TypeError when one is absent
MoodUsable(mood) == {"startPoint", "endPoint", "suggestedGenres"} \subseteq mood.present

(***************************************************************************)
(* The music plan (deriveMusicPlan, safeParsePlanJSON).  The content of    *)
(* the LLM response is non-JSON text, the JSON value null, or a JSON       *)
(* object; of the object the model keeps discoveryBalance (hasBalance      *)
(* tells whether the field is there) and rankingPriorities.                *)
(***************************************************************************)
Null == [t |-> "null", v |-> 0]

\* x ?? d
Nullish(x, d) == IF x.t \in {"undefined", "null"} THEN d ELSE x

NoPriorities == [t |-> "undefined", v |-> <<>>]

PlanContent(kind, hasBalance, familiarPercent, discoveryPercent, rankingPriorities) ==
  [kind |-> kind, hasBalance |-> hasBalance, familiarPercent |-> familiarPercent,
   discoveryPercent |-> discoveryPercent, rankingPriorities |-> rankingPriorities]

PlanText == PlanContent("text", FALSE, Undefined, Undefined, NoPriorities)

PlanNull == PlanContent("null", FALSE, Undefined, Undefined, NoPriorities)

DefaultRankingPriorities == <<"mood fit", "taste alignment", "discovery balance">>

FallbackPlan ==
  [discoveryBalance |-> [familiarPercent |-> Num(60), discoveryPercent |-> Num(40)],
   rankingPriorities |-> DefaultRankingPriorities]

safeParsePlanJSON(content) ==
  IF content.kind \in {"text", "null"}
  THEN \* JSON.parse throws, or a property of null is read: the catch block
       FallbackPlan
  ELSE [discoveryBalance |->
          [familiarPercent |->
             Nullish(IF content.hasBalance THEN content.familiarPercent ELSE Undefined, Num(60)),
           discoveryPercent |->
             Nullish(IF content.hasBalance THEN content.discoveryPercent ELSE Undefined, Num(40))],
        rankingPriorities |->
          IF content.rankingPriorities.t \in {"undefined", "null"}
          THEN DefaultRankingPriorities ELSE content.rankingPriorities.v]

(***************************************************************************)
(* The preference store.                                                   *)
(***************************************************************************)
MaxGenerations == 2

RECURSIVE Pow10(_)
Pow10(n) == IF n = 0 THEN 1 ELSE 10 * Pow10(n - 1)

\* energy and valence preferences are integers in units of 1 / PrefScale;
\* every blend adds one decimal digit
PrefScale == Pow10(MaxGenerations + 1)

\* config.preferences.ttl, in days
PREFERENCES_TTL == 30

maxSavedVibes == 5

maxFavoriteGenres == 10

defaultTrackCount == 10

minTracks == 5

maxTracks == 50

Str(s) == [t |-> "string", v |-> s]

\* an absent string-valued field
NoString == [t |-> "undefined", v |-> ""]

getDefaultPreferences ==
  [preferredVibes |-> <<>>,
   favoriteGenres |-> <<>>,
   energyPreference |-> (6 * PrefScale) \div 10,
   valencePreference |-> (5 * PrefScale) \div 10,
   discoveryLevel |-> "balanced",
   totalGenerations |-> 0,
   playlistLength |-> defaultTrackCount,
   explicitContent |-> TRUE,
   lastGeneratedAt |-> Undefined,
   lastPrompt |-> NoString,
   lastMoodAnalysis |-> Undefined]

NoItem == [present |-> FALSE, value |-> getDefaultPreferences, expiry |-> 0]

\* utils/localstorage: the value, or null once the item has expired
getFromLocalStorageWithExpiry(st, t) ==
  IF st.present /\ t < st.expiry THEN [found |-> TRUE, value |-> st.value]
  ELSE [found |-> FALSE, value |-> getDefaultPreferences]

setLocalStorageWithExpiry(value, t, ttl) == [present |-> TRUE, value |-> value, expiry |-> t + ttl]

\* { ...a, ...b }
Merge(a, b) == [k \in DOMAIN a \cup DOMAIN b |-> IF k \in DOMAIN b THEN b[k] ELSE a[k]]

loadUserPreferences(st, t) ==
  LET saved == getFromLocalStorageWithExpiry(st, t)
  IN IF saved.found THEN Merge(getDefaultPreferences, saved.value) ELSE getDefaultPreferences

\* a variant that writes the partial over the defaults, not over the current value
saveUserPreferences_OverDefaults(st, t, preferences) ==
  setLocalStorageWithExpiry(Merge(getDefaultPreferences, preferences), t, PREFERENCES_TTL)

\* a variant that keeps the expiry of an item it overwrites
saveUserPreferences_KeepExpiry(st, t, preferences) ==
  [present |-> TRUE,
   value |-> Merge(loadUserPreferences(st, t), preferences),
   expiry |-> IF st.present THEN st.expiry ELSE t + PREFERENCES_TTL]

saveUserPreferences(st, t, preferences) ==
  setLocalStorageWithExpiry(Merge(loadUserPreferences(st, t), preferences), t, PREFERENCES_TTL)

RECURSIVE Unique(_)
Unique(s) ==
  IF s = <<>> THEN <<>>
  ELSE LET init == Unique(SubSeq(s, 1, Len(s) - 1))
           last == s[Len(s)]
       IN IF \E i \in 1..Len(init) : init[i] = last THEN init ELSE Append(init, last)

\* s.slice(0, n)
SliceFirst(s, n) == SubSeq(s, 1, Min(n, Len(s)))

\* s.slice(-n)
SliceLast(s, n) == SubSeq(s, Max(1, Len(s) - n + 1), Len(s))

Contains(s, x) == \E i \in 1..Len(s) : s[i] = x

\* (current * 0.7) + (new * 0.3), new given in tenths
Blend(current, newTenths) == (7 * current + 3 * newTenths * (PrefScale \div 10)) \div 10

updateVibePreferences(st, t, moodAnalysis, genres) ==
  LET current == loadUserPreferences(st, t)
      updatedGenres == SliceFirst(Unique(genres \o current.favoriteGenres), maxFavoriteGenres)
      updatedVibes == IF Contains(current.preferredVibes, moodAnalysis.moodDescription)
                      THEN current.preferredVibes
                      ELSE SliceLast(Append(current.preferredVibes, moodAnalysis.moodDescription),
                                     maxSavedVibes)
      newEnergyPref == Blend(current.energyPreference, moodAnalysis.endPoint.energy)
      newValencePref == Blend(current.valencePreference, moodAnalysis.endPoint.valence)
  IN saveUserPreferences(st, t,
       [preferredVibes |-> updatedVibes,
        favoriteGenres |-> updatedGenres,
        energyPreference |-> Max(0, Min(PrefScale, newEnergyPref)),
        valencePreference |-> Max(0 - PrefScale, Min(PrefScale, newValencePref))])

\* step 8 of generatePlaylist
LearnFromGeneration(st, t, prompt, moodAnalysis, preferences) ==
  saveUserPreferences(
    updateVibePreferences(st, t, moodAnalysis, moodAnalysis.suggestedGenres), t,
    [lastPrompt |-> Str(prompt),
     lastMoodAnalysis |-> moodAnalysis,
     lastGeneratedAt |-> Num(t),
     totalGenerations |-> preferences.totalGenerations + 1])

\* a variant that skips the check of the stored prompt
HasLastPrompt_Always(preferences) == TRUE

\* !preferences.lastPrompt: undefined and the empty string are falsy
HasLastPrompt(preferences) ==
  preferences.lastPrompt.t = "string" /\ preferences.lastPrompt.v # ""

(***************************************************************************)
(* The service as a state machine.                                         *)
(*   storage  the localStorage item of the preferences                     *)
(*   now      the clock, in days                                           *)
(*   call     the generatePlaylist call in flight: the await it is         *)
(*            suspended at (pc) and its locals                             *)
(*   outcome  what the last call of the service API settled with           *)
(***************************************************************************)
GenericError == "Failed to generate playlist. Please try again."

NoPreviousError == "No previous generation found. Please create a new playlist first."

Prompts == {"", "late night chill", "workout"}

MaxQueries == 2

MaxRanked == 3

MaxPlaylistLength == 3

MaxNow == 30

TickDays == {15}

\* what one catalog search can return
QueryResults == {<<T1>>, <<T2, T3>>, <<T4, T1>>}

SeqsUpTo(S, n) == UNION {[1..k -> S] : k \in 0..n}

RecentChoices == {<<>>, <<FormatRecent(OtherTrack), FormatRecent(T1)>>}

RankEntries ==
  {Entry("t1", Num(90), Num(85)),
   Entry("t2", Undefined, Undefined),
   Entry("t3", Num(0 - 20), Num(150)),
   Entry("zz", Num(90), Num(85)),
   Entry("", Num(50), Num(50))}

Text == [kind |-> "text", tracks |-> NoTracks]

Obj(tracks) == [kind |-> "object", tracks |-> tracks]

MalformedContents ==
  {Text, Obj(NoTracks), Obj([t |-> "number", v |-> <<>>]), Obj([t |-> "string", v |-> <<>>]),
   Obj(Arr(<<NullEntry>>))}

\* the ranking responses of the ranking engine's specification
RankContents == MalformedContents \cup {Obj(Arr(s)) : s \in SeqsUpTo(RankEntries, MaxRanked)}

\* the ranking responses of the service's specification
ServiceRankContents ==
  {Text, Obj([t |-> "number", v |-> <<>>]), Obj(Arr(<<Entry("t1", Num(90), Num(85))>>))}

ServiceQueryResults == {<<>>, <<T1>>}

ServiceRecentChoices == {<<>>, <<FormatRecent(T1)>>}

\* the playlist lengths the settings screen is used with
ServicePlaylistLengths == {2}

\* no plan derived yet
NoPlan ==
  [discoveryBalance |-> [familiarPercent |-> Undefined, discoveryPercent |-> Undefined],
   rankingPriorities |-> <<>>]

\* the plan responses of the service's specification
ServicePlanContents == {PlanText}

IdleCall ==
  [pc |-> "idle", via |-> "none", prompt |-> "", usePreferences |-> FALSE,
   preferences |-> [playlistLength |-> 0, totalGenerations |-> 0],
   recentlyPlayed |-> <<>>, moodResponse |-> "none", moodAnalysis |-> EmptyObjectMood,
   planResponse |-> PlanText, musicPlan |-> NoPlan,
   searchQueries |-> 0, candidatesByQuery |-> <<>>]

NoOutcome ==
  [kind |-> "none", error |-> "", via |-> "none", stage |-> "", rejected |-> FALSE,
   prompt |-> "", usePreferences |-> FALSE,
   playlistLength |-> 0, candidatesByQuery |-> <<>>, recentlyPlayed |-> <<>>,
   response |-> Text, tracks |-> <<>>, recommendations |-> <<>>, rankedCount |-> 0,
   moodResponse |-> "none", moodAnalysis |-> EmptyObjectMood]

Failure(via, message) == [NoOutcome EXCEPT !.kind = "error", !.error = message, !.via = via]

\* the outcome of a pipeline that ended at stage call.pc: `rejected` when the
\* awaited request itself failed, otherwise with the response it choked on
PipelineFailure(rejected, content) ==
  [Failure(call.via, GenericError) EXCEPT
     !.stage = call.pc, !.rejected = rejected, !.prompt = call.prompt,
     !.usePreferences = call.usePreferences,
     !.playlistLength = call.preferences.playlistLength,
     !.candidatesByQuery = call.candidatesByQuery,
     !.recentlyPlayed = call.recentlyPlayed,
     !.moodResponse = call.moodResponse,
     !.moodAnalysis = call.moodAnalysis,
     !.response = content]

Returned(via) == [NoOutcome EXCEPT !.kind = "void", !.via = via]

(***************************************************************************)
(* The mood page: the fields of the moodMusic slice that the               *)
(* recommendation effect of the page reads, the dependency values the      *)
(* effect last ran with, the number of mood requests in flight per thunk,  *)
(* and whether the user has acted since the last generation attempt        *)
(* started (a history field, read by no action).                           *)
(***************************************************************************)
NoMood == [t |-> "null", moodDescription |-> ""]

Mood(moodDescription) == [t |-> "object", moodDescription |-> moodDescription]

initialState ==
  [currentMood |-> NoMood, isTyping |-> FALSE, isLoadingRecommendations |-> FALSE,
   recommendations |-> <<>>]

\* the thunks that ask the LLM for a mood
MoodThunks == {"sendChatMessage", "selectEmotionFromMap", "selectQuickVibe"}

\* the dependency list of the recommendation effect
EffectDeps(moodMusic) ==
  <<moodMusic.currentMood, moodMusic.isLoadingRecommendations, Len(moodMusic.recommendations)>>

\* the page once mounted: the effect has run with the initial state
InitialPage ==
  [moodMusic |-> initialState, effectDeps |-> EffectDeps(initialState),
   requests |-> [thunk \in MoodThunks |-> 0], userActed |-> FALSE]

Init ==
  /\ storage = NoItem
  /\ now = 0
  /\ call = IdleCall
  /\ outcome = NoOutcome
  /\ page = InitialPage

\* the part of the loaded preferences that generatePlaylist reads later
Snapshot(preferences) ==
  [playlistLength |-> preferences.playlistLength, totalGenerations |-> preferences.totalGenerations]

\* generatePlaylist up to its first await
StartPipeline(prompt, usePreferences, via) ==
  LET preferences == IF usePreferences THEN loadUserPreferences(storage, now)
                     ELSE getDefaultPreferences
  IN /\ preferences.totalGenerations < MaxGenerations
     /\ call' = [IdleCall EXCEPT !.pc = "taste", !.via = via, !.prompt = prompt,
                                 !.usePreferences = usePreferences,
                                 !.preferences = Snapshot(preferences)]
     /\ outcome' = [NoOutcome EXCEPT !.kind = "pending", !.via = via]

Idle == call.pc = "idle"

GeneratePlaylist ==
  /\ Idle
  /\ \E prompt \in Prompts, usePreferences \in BOOLEAN :
       StartPipeline(prompt, usePreferences, "generate")
  /\ UNCHANGED <<storage, now, page>>

RegeneratePlaylist ==
  /\ Idle
  /\ LET preferences == loadUserPreferences(storage, now)
     IN IF ~HasLastPrompt(preferences)
        THEN /\ outcome' = Failure("regenerate", NoPreviousError)
             /\ UNCHANGED call
        ELSE StartPipeline(preferences.lastPrompt.v, TRUE, "regenerate")
  /\ UNCHANGED <<storage, now, page>>

\* a variant whose catch block rethrows the error it caught
Fails_Rethrow(rejected, content) ==
  /\ outcome' = [PipelineFailure(rejected, content) EXCEPT
                   !.error = IF rejected THEN "Request timed out." ELSE "TypeError"]
  /\ call' = IdleCall
  /\ UNCHANGED <<storage, now, page>>

\* the catch block of generatePlaylist
Fails(rejected, content) ==
  /\ outcome' = PipelineFailure(rejected, content)
  /\ call' = IdleCall
  /\ UNCHANGED <<storage, now, page>>

\* fetchUserTasteProfile catches every failure of its own
TasteReturns ==
  /\ call.pc = "taste"
  /\ call' = [call EXCEPT !.pc = "context"]
  /\ UNCHANGED <<storage, now, outcome, page>>

\* getUserContext: a failed recently-played fetch leaves the list empty
ContextReturns ==
  /\ call.pc = "context"
  /\ \E recent \in ServiceRecentChoices : call' = [call EXCEPT !.pc = "mood", !.recentlyPlayed = recent]
  /\ UNCHANGED <<storage, now, outcome, page>>

MoodContents ==
  {[kind |-> "text", value |-> EmptyObjectMood],
   [kind |-> "object", value |-> HypeMood],
   [kind |-> "object", value |-> EmptyObjectMood]}

\* analyzeMoodFromChat settles; deriveMusicPlan builds its prompt at once
MoodReturns ==
  /\ call.pc = "mood"
  /\ \E content \in MoodContents :
       LET moodAnalysis == analyzeMoodFromChat(content)
       IN IF MoodUsable(moodAnalysis)
          THEN /\ call' = [call EXCEPT !.pc = "plan", !.moodResponse = content.kind,
                                       !.moodAnalysis = moodAnalysis]
               /\ UNCHANGED <<storage, now, outcome, page>>
          ELSE /\ outcome' = [PipelineFailure(FALSE, Text) EXCEPT !.moodResponse = content.kind,
                                                                  !.moodAnalysis = moodAnalysis]
               /\ call' = IdleCall
               /\ UNCHANGED <<storage, now, page>>

\* the LLM request of a stage rejects (network error, timeout)
StageThrows ==
  /\ call.pc \in {"mood", "plan", "queries", "rank"}
  /\ Fails(TRUE, Text)

\* deriveMusicPlan settles: safeParsePlanJSON never throws
PlanReturnsWith(Contents) ==
  /\ call.pc = "plan"
  /\ \E content \in Contents :
       call' = [call EXCEPT !.pc = "queries", !.planResponse = content,
                            !.musicPlan = safeParsePlanJSON(content)]
  /\ UNCHANGED <<storage, now, outcome, page>>

PlanReturns == PlanReturnsWith(ServicePlanContents)

\* generatePlaylistRecommendations settles with n search queries, or with a
\* tracks value that has no map method
QueriesReturn ==
  /\ call.pc = "queries"
  /\ \/ \E n \in 0..MaxQueries :
          /\ call' = [call EXCEPT !.pc = "search", !.searchQueries = n]
          /\ UNCHANGED <<storage, now, outcome, page>>
     \/ Fails(FALSE, Obj([t |-> "number", v |-> <<>>]))

\* fetchCandidateTracksFromSpotify settles: one result list per query
SearchReturns(Results) ==
  /\ call.pc = "search"
  /\ \E lists \in [1..call.searchQueries -> Results] :
       call' = [call EXCEPT !.pc = "rank", !.candidatesByQuery = lists]
  /\ UNCHANGED <<storage, now, outcome, page>>

\* a variant whose step 8 does not test usePreferences
Settle_AlwaysLearns(content, built) ==
  IF built.threw THEN Fails(FALSE, content)
  ELSE /\ storage' = IF Len(built.tracks) > 0
                     THEN LearnFromGeneration(storage, now, call.prompt,
                                              call.moodAnalysis, call.preferences)
                     ELSE storage
       /\ outcome' = [kind |-> "result", error |-> "", via |-> call.via,
                      stage |-> "rank", rejected |-> FALSE,
                      prompt |-> call.prompt, usePreferences |-> call.usePreferences,
                      playlistLength |-> call.preferences.playlistLength,
                      candidatesByQuery |-> call.candidatesByQuery,
                      recentlyPlayed |-> call.recentlyPlayed,
                      response |-> content,
                      tracks |-> built.tracks,
                      recommendations |-> built.recommendations,
                      rankedCount |-> built.rankedCount,
                      moodResponse |-> call.moodResponse,
                      moodAnalysis |-> call.moodAnalysis]
       /\ call' = IdleCall
       /\ UNCHANGED <<now, page>>

\* steps 8 and the return of generatePlaylist, or its catch block
Settle(content, built) ==
  IF built.threw THEN Fails(FALSE, content)
  ELSE /\ storage' = IF call.usePreferences /\ Len(built.tracks) > 0
                     THEN LearnFromGeneration(storage, now, call.prompt,
                                              call.moodAnalysis, call.preferences)
                     ELSE storage
       /\ outcome' = [kind |-> "result", error |-> "", via |-> call.via,
                      stage |-> "rank", rejected |-> FALSE,
                      prompt |-> call.prompt, usePreferences |-> call.usePreferences,
                      playlistLength |-> call.preferences.playlistLength,
                      candidatesByQuery |-> call.candidatesByQuery,
                      recentlyPlayed |-> call.recentlyPlayed,
                      response |-> content,
                      tracks |-> built.tracks,
                      recommendations |-> built.recommendations,
                      rankedCount |-> built.rankedCount,
                      moodResponse |-> call.moodResponse,
                      moodAnalysis |-> call.moodAnalysis]
       /\ call' = IdleCall
       /\ UNCHANGED <<now, page>>

\* rankAndExplainCandidates settles with `content`: step 7, the validation
\* pass, step 8 and the return
RankReturns(content) ==
  /\ call.pc = "rank"
  /\ Settle(content, BuildPlaylist(call.candidatesByQuery, safeParsePlaylistJSON(content),
                                   call.preferences.playlistLength, call.recentlyPlayed))

UpdatePreferenceSetting ==
  /\ \E n \in ServicePlaylistLengths :
       storage' = saveUserPreferences(storage, now,
                    Merge(loadUserPreferences(storage, now), [playlistLength |-> n]))
  /\ outcome' = Returned("updatePreferenceSetting")
  /\ UNCHANGED <<now, call, page>>

ResetPreferences ==
  /\ storage' = NoItem
  /\ outcome' = Returned("resetPreferences")
  /\ UNCHANGED <<now, call, page>>

Tick ==
  /\ \E d \in TickDays : now + d <= MaxNow /\ now' = now + d
  /\ UNCHANGED <<storage, call, outcome, page>>

Next ==
  \/ GeneratePlaylist
  \/ RegeneratePlaylist
  \/ TasteReturns
  \/ ContextReturns
  \/ MoodReturns
  \/ StageThrows
  \/ PlanReturns
  \/ QueriesReturn
  \/ SearchReturns(ServiceQueryResults)
  \/ \E content \in ServiceRankContents : RankReturns(content)
  \/ UpdatePreferenceSetting
  \/ ResetPreferences
  \/ Tick

Spec == Init /\ [][Next]_vars

(***************************************************************************)
(* The ranking engine alone: a call suspended at the ranking request, for  *)
(* every candidate pool, playlist length and recently played list of the   *)
(* bounds, settles with every ranking response of the bounds.              *)
(***************************************************************************)
InitRank ==
  /\ now = 0
  /\ outcome = NoOutcome
  /\ page = InitialPage
  /\ \E n \in 1..MaxPlaylistLength, recent \in RecentChoices,
        lists \in SeqsUpTo(QueryResults, MaxQueries) :
       /\ storage = setLocalStorageWithExpiry(
                      Merge(getDefaultPreferences, [playlistLength |-> n]), 0, PREFERENCES_TTL)
       /\ call = [IdleCall EXCEPT !.pc = "rank", !.via = "generate",
                                  !.prompt = "late night chill", !.usePreferences = TRUE,
                                  !.preferences = [playlistLength |-> n, totalGenerations |-> 0],
                                  !.recentlyPlayed = recent, !.moodResponse = "object",
                                  !.moodAnalysis = HypeMood,
                                  !.musicPlan = FallbackPlan,
                                  !.searchQueries = Len(lists), !.candidatesByQuery = lists]

NextRank == \E content \in RankContents : RankReturns(content)

SpecRank == InitRank /\ [][NextRank]_vars

(***************************************************************************)
(* The preference store under its whole API: saveUserPreferences,          *)
(* updateVibePreferences and updatePreferenceSetting are exported and      *)
(* take any value of their parameter types; a generation learns through    *)
(* one fixed path of the pipeline.                                         *)
(***************************************************************************)
\* n distinct names
Names(prefix, n) == [i \in 1..n |-> prefix \o ToString(i)]

\* Partial<UserGenerationPreferences> arguments of saveUserPreferences
StorePartials ==
  {[energyPreference |-> (15 * PrefScale) \div 10, valencePreference |-> 0 - 2 * PrefScale],
   [preferredVibes |-> Names("vibe", maxSavedVibes + 1),
    favoriteGenres |-> Names("genre", maxFavoriteGenres + 1)],
   [discoveryLevel |-> "familiar", explicitContent |-> FALSE]}

\* (key, value) arguments of updatePreferenceSetting: value is of type any
StoreSettings ==
  {[playlistLength |-> 100], [energyPreference |-> 0 - PrefScale], [discoveryLevel |-> "discovery"]}

\* a mood whose end point lies outside the documented ranges, with more
\* genres than the favorite-genre cap
LoudMood ==
  [present |-> MoodFields,
   startPoint |-> [valence |-> 0, energy |-> 5],
   endPoint |-> [valence |-> 0 - 50, energy |-> 50],
   moodDescription |-> "rage",
   suggestedGenres |-> Names("metal", maxFavoriteGenres + 2),
   shouldAskFollowUp |-> FALSE,
   followUpQuestion |-> ""]

SaveUserPreferences ==
  /\ \E partial \in StorePartials : storage' = saveUserPreferences(storage, now, partial)
  /\ outcome' = Returned("saveUserPreferences")
  /\ UNCHANGED <<now, call, page>>

UpdateVibePreferences ==
  /\ \E moodAnalysis \in {LoudMood} :
       storage' = updateVibePreferences(storage, now, moodAnalysis, moodAnalysis.suggestedGenres)
  /\ outcome' = Returned("updateVibePreferences")
  /\ UNCHANGED <<now, call, page>>

UpdatePreferenceSettingTo(Settings) ==
  /\ \E setting \in Settings :
       storage' = saveUserPreferences(storage, now,
                    Merge(loadUserPreferences(storage, now), setting))
  /\ outcome' = Returned("updatePreferenceSetting")
  /\ UNCHANGED <<now, call, page>>

\* the pipeline of one generation that learns: every stage responds
LearningPipeline ==
  \/ GeneratePlaylist /\ call'.prompt = "workout" /\ call'.usePreferences
  \/ TasteReturns
  \/ ContextReturns /\ call'.recentlyPlayed = <<>>
  \/ MoodReturns /\ call'.pc = "plan" /\ call'.moodAnalysis = HypeMood
  \/ PlanReturns
  \/ QueriesReturn /\ call'.pc = "search" /\ call'.searchQueries = 1
  \/ SearchReturns({<<T1>>})
  \/ RankReturns(Text)

NextStore ==
  \/ SaveUserPreferences
  \/ UpdateVibePreferences
  \/ UpdatePreferenceSettingTo(StoreSettings)
  \/ ResetPreferences
  \/ Tick
  \/ LearningPipeline

SpecStore == Init /\ [][NextStore]_vars

(***************************************************************************)
(* The plan stage alone: a call suspended at the plan request settles with *)
(* every plan response of the bounds.                                      *)
(***************************************************************************)
PlanPercents == {Undefined, Null, Num(0), Num(30), Num(60), Num(70), Num(100)}

PlanPriorities ==
  {NoPriorities,
   [t |-> "array", v |-> <<"match the explicit request exactly", "mood fit">>],
   [t |-> "array", v |-> <<"energy", "tempo">>]}

PlanContents ==
  {PlanText, PlanNull}
  \cup {PlanContent("object", FALSE, Undefined, Undefined, rp) : rp \in PlanPriorities}
  \cup {PlanContent("object", TRUE, fp, dp, rp) :
          fp \in PlanPercents, dp \in PlanPercents, rp \in PlanPriorities}

InitPlan ==
  /\ storage = NoItem
  /\ now = 0
  /\ page = InitialPage
  /\ outcome = [NoOutcome EXCEPT !.kind = "pending", !.via = "generate"]
  /\ \E mood \in {HypeMood, FallbackMood} :
       call = [IdleCall EXCEPT !.pc = "plan", !.via = "generate", !.prompt = "workout",
                               !.usePreferences = TRUE,
                               !.preferences = Snapshot(getDefaultPreferences),
                               !.moodResponse = IF mood = HypeMood THEN "object" ELSE "text",
                               !.moodAnalysis = mood]

NextPlan == PlanReturnsWith(PlanContents)

SpecPlan == InitPlan /\ [][NextPlan]_vars

(***************************************************************************)
(* The mood page over the service: the user's chat, emotion map or quick   *)
(* vibe asks for a mood, the answer sets the mood, the                     *)
(* recommendation effect dispatches fetchRecommendationsForMood, which     *)
(* awaits generatePlaylist and settles into the slice. React renders and   *)
(* runs the effect after every change of the slice, before any awaited     *)
(* request of the pipeline responds and before the next click.             *)
(***************************************************************************)
PagePrompts == {"workout"}

Rendered == page.effectDeps = EffectDeps(page.moodMusic)

MaxPending == 1

\* handleSendMessage and handleSuggestionClick: nothing is sent while
\* isTyping; otherwise sendChatMessage is dispatched and its pending
\* reducer runs
HandleSendMessage ==
  /\ Rendered
  /\ ~page.moodMusic.isTyping
  /\ page.requests["sendChatMessage"] < MaxPending
  /\ page' = [page EXCEPT !.moodMusic.isTyping = TRUE,
                          !.requests["sendChatMessage"] = @ + 1,
                          !.userActed = TRUE]
  /\ UNCHANGED <<storage, now, call, outcome>>

\* sendChatMessage.fulfilled with a mood: the user asked for music
SendChatMessageFulfilled ==
  /\ Rendered
  /\ page.requests["sendChatMessage"] > 0
  /\ \E moodDescription \in PagePrompts :
       page' = [page EXCEPT !.moodMusic.isTyping = FALSE,
                            !.moodMusic.currentMood = Mood(moodDescription),
                            !.requests["sendChatMessage"] = @ - 1,
                            !.userActed = TRUE]
  /\ UNCHANGED <<storage, now, call, outcome>>

\* sendChatMessage.rejected
SendChatMessageRejected ==
  /\ Rendered
  /\ page.requests["sendChatMessage"] > 0
  /\ page' = [page EXCEPT !.moodMusic.isTyping = FALSE,
                          !.requests["sendChatMessage"] = @ - 1]
  /\ UNCHANGED <<storage, now, call, outcome>>

SelectThunks == {"selectEmotionFromMap", "selectQuickVibe"}

\* selectEmotionFromMap (the second click on the emotion map) or
\* selectQuickVibe is dispatched and its pending reducer runs; neither is
\* held back by isTyping
SelectDispatched(thunk) ==
  /\ Rendered
  /\ page.requests[thunk] < MaxPending
  /\ page' = [page EXCEPT !.moodMusic.isTyping = TRUE,
                          !.requests[thunk] = @ + 1,
                          !.userActed = TRUE]
  /\ UNCHANGED <<storage, now, call, outcome>>

\* selectEmotionFromMap.fulfilled, selectQuickVibe.fulfilled
SelectFulfilled(thunk) ==
  /\ Rendered
  /\ page.requests[thunk] > 0
  /\ \E moodDescription \in PagePrompts :
       page' = [page EXCEPT !.moodMusic.isTyping = FALSE,
                            !.moodMusic.currentMood = Mood(moodDescription),
                            !.requests[thunk] = @ - 1,
                            !.userActed = TRUE]
  /\ UNCHANGED <<storage, now, call, outcome>>

\* selectEmotionFromMap or selectQuickVibe rejects: the slice has no
\* reducer for it
SelectRejected(thunk) ==
  /\ Rendered
  /\ page.requests[thunk] > 0
  /\ page' = [page EXCEPT !.requests[thunk] = @ - 1]
  /\ UNCHANGED <<storage, now, call, outcome>>

\* the clear button of the chat
ClearChat ==
  /\ Rendered
  /\ page' = [page EXCEPT !.moodMusic.currentMood = NoMood,
                          !.moodMusic.recommendations = <<>>,
                          !.userActed = TRUE]
  /\ UNCHANGED <<storage, now, call, outcome>>

\* dispatch(fetchRecommendationsForMood()) from the effect: the pending
\* reducer, then the thunk up to the first await of generatePlaylist
FetchRecommendationsForMood(deps) ==
  /\ page' = [page EXCEPT !.effectDeps = deps,
                          !.moodMusic.isLoadingRecommendations = TRUE,
                          !.userActed = FALSE]
  /\ StartPipeline(page.moodMusic.currentMood.moodDescription, TRUE, "fetchRecommendations")
  /\ UNCHANGED <<storage, now>>

\* the effect "fetch recommendations when mood changes": it runs when one of
\* its dependencies has changed since it last ran
MoodEffect ==
  /\ ~Rendered
  /\ LET moodMusic == page.moodMusic
     IN IF /\ moodMusic.currentMood.t # "null"
           /\ ~moodMusic.isLoadingRecommendations
           /\ Len(moodMusic.recommendations) = 0
        THEN FetchRecommendationsForMood(EffectDeps(moodMusic))
        ELSE /\ page' = [page EXCEPT !.effectDeps = EffectDeps(moodMusic)]
             /\ UNCHANGED <<storage, now, call, outcome>>

\* the thunk's mapping of the generation result to RecommendedTrack
RecommendedTracks(result) ==
  [index \in 1..Len(result.recommendations) |->
     [recommendation |-> result.recommendations[index],
      spotifyTrack |-> result.tracks[index],
      isLoading |-> FALSE]]

ThunkSettled == page.moodMusic.isLoadingRecommendations /\ Idle

\* fetchRecommendationsForMood.fulfilled: generatePlaylist returned
FetchRecommendationsFulfilled ==
  /\ Rendered
  /\ ThunkSettled
  /\ outcome.kind = "result"
  /\ page' = [page EXCEPT !.moodMusic.isLoadingRecommendations = FALSE,
                          !.moodMusic.recommendations = RecommendedTracks(outcome)]
  /\ UNCHANGED <<storage, now, call, outcome>>

\* fetchRecommendationsForMood.rejected: generatePlaylist threw
FetchRecommendationsRejected ==
  /\ Rendered
  /\ ThunkSettled
  /\ outcome.kind = "error"
  /\ page' = [page EXCEPT !.moodMusic.isLoadingRecommendations = FALSE]
  /\ UNCHANGED <<storage, now, call, outcome>>

\* the awaited requests of the pipeline respond
PagePipeline ==
  /\ Rendered
  /\ \/ TasteReturns
     \/ ContextReturns
     \/ MoodReturns
     \/ StageThrows
     \/ PlanReturns
     \/ QueriesReturn
     \/ SearchReturns(ServiceQueryResults)
     \/ \E content \in ServiceRankContents : RankReturns(content)

NextPage ==
  \/ HandleSendMessage
  \/ SendChatMessageFulfilled
  \/ SendChatMessageRejected
  \/ \E thunk \in SelectThunks : SelectDispatched(thunk)
  \/ \E thunk \in SelectThunks : SelectFulfilled(thunk)
  \/ \E thunk \in SelectThunks : SelectRejected(thunk)
  \/ ClearChat
  \/ MoodEffect
  \/ PagePipeline
  \/ FetchRecommendationsFulfilled
  \/ FetchRecommendationsRejected

SpecPage == Init /\ [][NextPage]_vars

(***************************************************************************)
(* The play-frequency score alone: calculateOverallMatch is applied to     *)
(* every track of the catalog and every recent-play list of the bounds.    *)
(***************************************************************************)
MaxRecent == 3

\* lines of the form "name by artists", as getUserContext formats them
RecentLines ==
  {FormatRecent(T1), FormatRecent(T3), FormatRecent(OtherTrack),
   <<"N", "o", " ", "b", "y", " ", "K", "A", "I">>}

RecentLists == SeqsUpTo(RecentLines, MaxRecent)

ScoredTracks == Catalog \cup {[id |-> "t5", name |-> <<"O", "h">>, artists |-> <<>>, popularity |-> Num(10)]}

InitFrequency ==
  /\ storage = NoItem
  /\ now = 0
  /\ page = InitialPage
  /\ outcome = [kind |-> "none", playFrequencyScore |-> 0, overallMatch |-> 0]
  /\ \E track \in ScoredTracks, recentlyPlayed \in RecentLists :
       call = [pc |-> "score", track |-> track, recentlyPlayed |-> recentlyPlayed]

\* calculateOverallMatch with the default scores of a ranked entry
CalculateOverallMatch ==
  /\ call.pc = "score"
  /\ outcome' = [kind |-> "score",
                 playFrequencyScore |->
                   playFrequencyScore(call.track.name, ArtistNames(call.track),
                                      call.recentlyPlayed),
                 overallMatch |->
                   calculateOverallMatch(75, 80, PopularityOrDefault(call.track),
                                         call.track.name, ArtistNames(call.track),
                                         call.recentlyPlayed)]
  /\ call' = [call EXCEPT !.pc = "done"]
  /\ UNCHANGED <<storage, now, page>>

NextFrequency == CalculateOverallMatch

SpecFrequency == InitFrequency /\ [][NextFrequency]_vars

(***************************************************************************)
(* Candidate acquisition alone: fetchCandidateTracksFromSpotify searches   *)
(* its queries one after the other; `call` holds its locals, `outcome`     *)
(* the response that each search got.                                      *)
(***************************************************************************)
MaxSearched == 3

\* 'Unknown Track' is the query of a draft recommendation without searchQuery
QueryStrings == {"Unknown Track", "lofi beats"}

SearchItems == {<<>>, <<T1>>, <<T2, T3>>}

\* results.set(query, tracks) on a Map kept in insertion order
ResultsSet(results, query, tracks) ==
  IF \E k \in 1..Len(results) : results[k].query = query
  THEN [k \in 1..Len(results) |->
          IF results[k].query = query THEN [query |-> query, tracks |-> tracks]
          ELSE results[k]]
  ELSE Append(results, [query |-> query, tracks |-> tracks])

InitSearch ==
  /\ storage = NoItem
  /\ now = 0
  /\ page = InitialPage
  /\ outcome = [kind |-> "pending", responses |-> <<>>]
  /\ \E searchQueries \in SeqsUpTo(QueryStrings, MaxSearched) :
       call = [pc |-> "search", searchQueries |-> searchQueries, i |-> 1, results |-> <<>>]

Searching == call.pc = "search" /\ call.i <= Len(call.searchQueries)

\* querySearch resolves: a non-empty item list is stored under the query
QuerySearchResolves ==
  /\ Searching
  /\ \E items \in SearchItems :
       /\ call' = [call EXCEPT !.pc = "delay",
                               !.results = IF Len(items) > 0
                                           THEN ResultsSet(call.results, call.searchQueries[call.i], items)
                                           ELSE call.results]
       /\ outcome' = [outcome EXCEPT !.responses = Append(@, [failed |-> FALSE, items |-> items])]
  /\ UNCHANGED <<storage, now, page>>

\* querySearch rejects: the catch block stores an empty list under the query
QuerySearchRejects ==
  /\ Searching
  /\ call' = [call EXCEPT !.pc = "delay",
                          !.results = ResultsSet(call.results, call.searchQueries[call.i], <<>>)]
  /\ outcome' = [outcome EXCEPT !.responses = Append(@, [failed |-> TRUE, items |-> <<>>])]
  /\ UNCHANGED <<storage, now, page>>

\* the pacing delay after each search
DelayElapses ==
  /\ call.pc = "delay"
  /\ call' = [call EXCEPT !.pc = "search", !.i = call.i + 1]
  /\ UNCHANGED <<storage, now, outcome, page>>

\* the loop is over: the map is returned
SearchReturnsMap ==
  /\ call.pc = "search"
  /\ call.i > Len(call.searchQueries)
  /\ call' = [call EXCEPT !.pc = "returned"]
  /\ outcome' = [outcome EXCEPT !.kind = "map"]
  /\ UNCHANGED <<storage, now, page>>

NextSearch ==
  \/ QuerySearchResolves
  \/ QuerySearchRejects
  \/ DelayElapses
  \/ SearchReturnsMap

SpecSearch == InitSearch /\ [][NextSearch]_vars

(***************************************************************************)
(* The context alone: getUserContext at every hour of every day of the     *)
(* week, with the recently played request answered or failing.             *)
(***************************************************************************)
Hours == 0..23

days == <<"Sunday", "Monday", "Tuesday", "Wednesday", "Thursday", "Friday", "Saturday">>

\* getTimeOfDay of the context service, for new Date().getHours() = hour
getTimeOfDay(hour) ==
  IF hour >= 5 /\ hour < 12 THEN "morning"
  ELSE IF hour >= 12 /\ hour < 17 THEN "afternoon"
  ELSE IF hour >= 17 /\ hour < 21 THEN "evening"
  ELSE "night"

\* the timeOfDay that getUserContext computes
ContextTimeOfDay(hour) ==
  IF hour >= 12 /\ hour < 17 THEN "afternoon"
  ELSE IF hour >= 17 /\ hour < 21 THEN "evening"
  ELSE IF hour >= 21 \/ hour < 6 THEN "night"
  ELSE "morning"

InitContext ==
  /\ storage = NoItem
  /\ now = 0
  /\ page = InitialPage
  /\ outcome = [kind |-> "none", timeOfDay |-> "", dayOfWeek |-> "", recentlyPlayed |-> <<>>]
  /\ \E hour \in Hours, day \in 0..6 :
       call = [pc |-> "context", hour |-> hour, day |-> day]

\* getUserContext: a failed recently played request leaves the list empty
GetUserContext ==
  /\ call.pc = "context"
  /\ \E recentlyPlayed \in ServiceRecentChoices :
       outcome' = [kind |-> "context",
                   timeOfDay |-> ContextTimeOfDay(call.hour),
                   dayOfWeek |-> days[call.day + 1],
                   recentlyPlayed |-> recentlyPlayed]
  /\ call' = [call EXCEPT !.pc = "mood"]
  /\ UNCHANGED <<storage, now, page>>

NextContext == GetUserContext

SpecContext == InitContext /\ [][NextContext]_vars

(***************************************************************************)
(* The taste profile: fetchUserTasteProfile starts five requests at once,  *)
(* each with a catch of its own, joins them with Promise.all and builds    *)
(* the profile from the five responses. Scores are in hundredths, the      *)
(* confidence in thousandths; `settled` records the order in which the     *)
(* requests were answered.                                                 *)
(***************************************************************************)
Edm == <<"e", "d", "m">>

DancePop == <<"d", "a", "n", "c", "e", " ", "p", "o", "p">>

IndieFolk == <<"i", "n", "d", "i", "e", " ", "f", "o", "l", "k">>

Artist1 == [id |-> "a1", genres |-> <<Edm, DancePop>>]

Artist2 == [id |-> "a2", genres |-> <<IndieFolk, Edm>>]

TopTrack1 == [id |-> "k1"]

TopTrack2 == [id |-> "k2"]

RecentItem1 == [id |-> "k1"]

\* the five requests of Promise.all
Fetches ==
  {"topArtistsLong", "topArtistsShort", "topTracksLong", "topTracksShort", "recentlyPlayedData"}

\* the item lists each request may be answered with
UpstreamItems ==
  [topArtistsLong |-> {<<>>, <<Artist1, Artist2>>},
   topArtistsShort |-> {<<>>, <<Artist2>>},
   topTracksLong |-> {<<>>, <<TopTrack1, TopTrack2>>},
   topTracksShort |-> {<<>>, <<TopTrack2>>},
   recentlyPlayedData |-> {<<>>, <<RecentItem1>>}]

\* self.filter((x, index) => index === self.findIndex(y => y.id === x.id))
UniqueById(items) ==
  LET keep == {i \in 1..Len(items) : \A j \in 1..(i - 1) : items[j].id # items[i].id}
      F[i \in 0..Len(items)] ==
        IF i = 0 THEN <<>>
        ELSE IF i \in keep THEN Append(F[i - 1], items[i]) ELSE F[i - 1]
  IN F[Len(items)]

RECURSIVE AllGenres(_)
AllGenres(artists) ==
  IF artists = <<>> THEN <<>> ELSE Head(artists).genres \o AllGenres(Tail(artists))

Occurrences(s, x) == Cardinality({i \in 1..Len(s) : s[i] = x})

Without(s, i) == SubSeq(s, 1, i - 1) \o SubSeq(s, i + 1, Len(s))

\* a stable sort of the keys by descending count
RECURSIVE SortByCount(_, _)
SortByCount(keys, all) ==
  IF keys = <<>> THEN <<>>
  ELSE LET first == CHOOSE i \in 1..Len(keys) :
                      /\ \A j \in 1..Len(keys) : Occurrences(all, keys[j]) <= Occurrences(all, keys[i])
                      /\ \A j \in 1..(i - 1) : Occurrences(all, keys[j]) < Occurrences(all, keys[i])
       IN <<keys[first]>> \o SortByCount(Without(keys, first), all)

extractGenres(artists) ==
  LET all == AllGenres(artists)
  IN SliceFirst(SortByCount(Unique(all), all), 10)

highEnergy ==
  <<<<"e", "d", "m">>,
    <<"m", "e", "t", "a", "l">>,
    <<"p", "u", "n", "k">>,
    <<"d", "a", "n", "c", "e">>,
    <<"t", "e", "c", "h", "n", "o">>,
    <<"h", "o", "u", "s", "e">>,
    <<"d", "r", "u", "m", " ", "a", "n", "d", " ", "b", "a", "s", "s">>>>

lowEnergy ==
  <<<<"a", "m", "b", "i", "e", "n", "t">>,
    <<"c", "l", "a", "s", "s", "i", "c", "a", "l">>,
    <<"a", "c", "o", "u", "s", "t", "i", "c">>,
    <<"f", "o", "l", "k">>,
    <<"j", "a", "z", "z">>,
    <<"l", "o", "-", "f", "i">>>>

positive ==
  <<<<"p", "o", "p">>,
    <<"d", "a", "n", "c", "e">>,
    <<"f", "u", "n", "k">>,
    <<"d", "i", "s", "c", "o">>,
    <<"h", "a", "p", "p", "y">>,
    <<"p", "a", "r", "t", "y">>>>

negative ==
  <<<<"s", "a", "d">>,
    <<"e", "m", "o">>,
    <<"d", "a", "r", "k">>,
    <<"g", "o", "t", "h", "i", "c">>,
    <<"m", "e", "l", "a", "n", "c", "h", "o", "l", "y">>>>

danceable ==
  <<<<"d", "a", "n", "c", "e">>,
    <<"d", "i", "s", "c", "o">>,
    <<"h", "o", "u", "s", "e">>,
    <<"t", "e", "c", "h", "n", "o">>,
    <<"h", "i", "p", " ", "h", "o", "p">>,
    <<"r", "&", "b">>,
    <<"f", "u", "n", "k">>>>

notDanceable ==
  <<<<"a", "m", "b", "i", "e", "n", "t">>,
    <<"c", "l", "a", "s", "s", "i", "c", "a", "l">>,
    <<"m", "e", "t", "a", "l">>,
    <<"a", "c", "o", "u", "s", "t", "i", "c">>>>

acoustic ==
  <<<<"a", "c", "o", "u", "s", "t", "i", "c">>,
    <<"f", "o", "l", "k">>,
    <<"c", "l", "a", "s", "s", "i", "c", "a", "l">>,
    <<"j", "a", "z", "z">>,
    <<"s", "i", "n", "g", "e", "r", "-", "s", "o", "n", "g", "w", "r", "i", "t", "e", "r">>>>

electronic ==
  <<<<"e", "d", "m">>,
    <<"e", "l", "e", "c", "t", "r", "o", "n", "i", "c">>,
    <<"s", "y", "n", "t", "h">>,
    <<"t", "e", "c", "h", "n", "o">>,
    <<"h", "o", "u", "s", "e">>>>

fastGenres ==
  <<<<"e", "d", "m">>,
    <<"m", "e", "t", "a", "l">>,
    <<"p", "u", "n", "k">>,
    <<"d", "r", "u", "m", " ", "a", "n", "d", " ", "b", "a", "s", "s">>,
    <<"t", "e", "c", "h", "n", "o">>>>

slowGenres ==
  <<<<"a", "m", "b", "i", "e", "n", "t">>,
    <<"l", "o", "-", "f", "i">>,
    <<"c", "h", "i", "l", "l">>,
    <<"b", "a", "l", "l", "a", "d">>,
    <<"a", "c", "o", "u", "s", "t", "i", "c">>>>

\* patterns.some(p => genre.includes(p))
SomeIncluded(genre, patterns) == \E k \in 1..Len(patterns) : includes(genre, patterns[k])

\* the number of genres that match one of the patterns
Matching(genres, patterns) ==
  Cardinality({i \in 1..Len(genres) : SomeIncluded(genres[i], patterns)})

calculateGenreEnergy(genres) ==
  Clamp100(50 + 5 * Matching(genres, highEnergy) - 5 * Matching(genres, lowEnergy))

calculateGenreValence(genres) ==
  Clamp100(50 + 5 * Matching(genres, positive) - 5 * Matching(genres, negative))

calculateGenreDanceability(genres) ==
  Clamp100(50 + 6 * Matching(genres, danceable) - 4 * Matching(genres, notDanceable))

calculateGenreAcousticness(genres) ==
  Clamp100(40 + 8 * Matching(genres, acoustic) - 5 * Matching(genres, electronic))

inferTempoRange(genres) ==
  LET hasFast == Matching(genres, fastGenres) > 0
      hasSlow == Matching(genres, slowGenres) > 0
  IN IF hasFast /\ hasSlow THEN [min |-> 80, max |-> 150]
     ELSE IF hasFast THEN [min |-> 120, max |-> 180]
     ELSE IF hasSlow THEN [min |-> 60, max |-> 110]
     ELSE [min |-> 90, max |-> 140]

getEmptyTasteProfile ==
  [topArtists |-> <<>>, topGenres |-> <<>>, topTracks |-> <<>>,
   tasteVectors |-> [avgEnergy |-> 50, avgValence |-> 50, avgDanceability |-> 50,
                     avgAcousticness |-> 30, tempoRange |-> [min |-> 90, max |-> 140]],
   recentlyPlayed |-> <<>>,
   confidence |-> 0]

Ids(items) == [i \in 1..Len(items) |-> items[i].id]

\* the profile that the try block builds from the five joined responses
BuildProfile(items) ==
  LET uniqueArtists == SliceFirst(UniqueById(items.topArtistsShort \o items.topArtistsLong), 10)
      uniqueTracks == SliceFirst(UniqueById(items.topTracksShort \o items.topTracksLong), 20)
      topArtists == Ids(SliceFirst(uniqueArtists, 5))
      topTracks == Ids(SliceFirst(uniqueTracks, 5))
      topGenres == extractGenres(uniqueArtists)
      recentlyPlayed == Ids(SliceFirst(items.recentlyPlayedData, 20))
  IN [topArtists |-> topArtists, topGenres |-> topGenres, topTracks |-> topTracks,
      tasteVectors |-> [avgEnergy |-> calculateGenreEnergy(topGenres),
                        avgValence |-> calculateGenreValence(topGenres),
                        avgDanceability |-> calculateGenreDanceability(topGenres),
                        avgAcousticness |-> calculateGenreAcousticness(topGenres),
                        tempoRange |-> inferTempoRange(topGenres)],
      recentlyPlayed |-> recentlyPlayed,
      confidence |-> Min(1000, 60 * Len(topArtists) + 60 * Len(topTracks)
                               + 10 * Len(recentlyPlayed) + 20 * Len(topGenres))]

Pending == [status |-> "pending", items |-> <<>>]

InitTaste ==
  /\ storage = NoItem
  /\ now = 0
  /\ page = InitialPage
  /\ call = [pc |-> "fetching", responses |-> [fetch \in Fetches |-> Pending],
             settled |-> <<>>]
  /\ outcome = [kind |-> "pending", profile |-> getEmptyTasteProfile]

Awaited(fetch) == call.pc = "fetching" /\ call.responses[fetch].status = "pending"

\* a variant without the catch of the single request: Promise.all rejects at
\* once and the catch block of fetchUserTasteProfile returns the empty profile
FetchRejects_NoCatch(fetch) ==
  /\ Awaited(fetch)
  /\ call' = [call EXCEPT !.pc = "returned",
                          !.responses[fetch] = [status |-> "rejected", items |-> <<>>],
                          !.settled = Append(@, fetch)]
  /\ outcome' = [kind |-> "profile", profile |-> getEmptyTasteProfile]
  /\ UNCHANGED <<storage, now, page>>

\* a request is answered with a list of items
FetchFulfils(fetch) ==
  /\ Awaited(fetch)
  /\ \E items \in UpstreamItems[fetch] :
       call' = [call EXCEPT !.responses[fetch] = [status |-> "fulfilled", items |-> items],
                            !.settled = Append(@, fetch)]
  /\ UNCHANGED <<storage, now, outcome, page>>

\* a request is answered without a data object (without items, for recently played)
FetchFulfilsMalformed(fetch) ==
  /\ Awaited(fetch)
  /\ call' = [call EXCEPT !.responses[fetch] = [status |-> "malformed", items |-> <<>>],
                          !.settled = Append(@, fetch)]
  /\ UNCHANGED <<storage, now, outcome, page>>

\* a request fails: its catch answers with no items
FetchRejects(fetch) ==
  /\ Awaited(fetch)
  /\ call' = [call EXCEPT !.responses[fetch] = [status |-> "rejected", items |-> <<>>],
                          !.settled = Append(@, fetch)]
  /\ UNCHANGED <<storage, now, outcome, page>>

AllSettled == \A fetch \in Fetches : call.responses[fetch].status # "pending"

\* reading .data.items of a response without data throws; recentlyPlayedData
\* is read with ?. and || []
BuildThrows ==
  \E fetch \in Fetches \ {"recentlyPlayedData"} : call.responses[fetch].status = "malformed"

\* Promise.all resolves: the profile is built, or the catch block returns
\* the empty profile
ProfileReturns ==
  /\ call.pc = "fetching"
  /\ AllSettled
  /\ call' = [call EXCEPT !.pc = "returned"]
  /\ outcome' = [kind |-> "profile",
                 profile |-> IF BuildThrows THEN getEmptyTasteProfile
                             ELSE BuildProfile([fetch \in Fetches |-> call.responses[fetch].items])]
  /\ UNCHANGED <<storage, now, page>>

NextTaste ==
  \/ \E fetch \in Fetches : FetchFulfils(fetch)
  \/ \E fetch \in Fetches : FetchFulfilsMalformed(fetch)
  \/ \E fetch \in Fetches : FetchRejects(fetch)
  \/ ProfileReturns

SpecTaste == InitTaste /\ [][NextTaste]_vars

(***************************************************************************)
(* Overlapping generations: the generate callback of useAIGeneration does  *)
(* not wait for a generation in flight, so two calls of generatePlaylist   *)
(* may interleave at their awaits. `call` holds the two calls; `outcome`   *)
(* what each returned, and whether the calls overlapped.                   *)
(***************************************************************************)
Generations == 1..2

OverlapPrompts == <<"workout", "late night chill">>

AwaitedStages == <<"taste", "context", "mood", "plan", "queries", "search", "rank">>

StageAfter(pc) == AwaitedStages[(CHOOSE k \in 1..Len(AwaitedStages) : AwaitedStages[k] = pc) + 1]

OverlapSettings == {[playlistLength |-> 20], [discoveryLevel |-> "discovery"]}

NotStarted ==
  [pc |-> "idle", prompt |-> "", preferences |-> Snapshot(getDefaultPreferences),
   moodAnalysis |-> EmptyObjectMood]

InitOverlap ==
  /\ storage = NoItem
  /\ now = 0
  /\ page = InitialPage
  /\ call = [g \in Generations |-> NotStarted]
  /\ outcome = [results |-> [g \in Generations |-> "none"],
                tracks |-> [g \in Generations |-> 0],
                overlapped |-> FALSE]

InFlight(g) == call[g].pc \notin {"idle", "done"}

\* generate of the hook: generatePlaylist(prompt, history, true) up to its
\* first await, with the preferences it loads
HookGenerate(g) ==
  /\ call[g].pc = "idle"
  /\ call' = [call EXCEPT ![g] = [pc |-> "taste", prompt |-> OverlapPrompts[g],
                                  preferences |-> Snapshot(loadUserPreferences(storage, now)),
                                  moodAnalysis |-> EmptyObjectMood]]
  /\ outcome' = [outcome EXCEPT !.results[g] = "pending",
                                !.overlapped = @ \/ \E h \in Generations \ {g} : InFlight(h)]
  /\ UNCHANGED <<storage, now, page>>

\* an awaited stage before the ranking answers
StageReturns(g) ==
  /\ InFlight(g)
  /\ call[g].pc # "rank"
  /\ \E moodAnalysis \in IF call[g].pc = "mood" THEN {HypeMood, FallbackMood}
                         ELSE {call[g].moodAnalysis} :
       call' = [call EXCEPT ![g].pc = StageAfter(call[g].pc),
                            ![g].moodAnalysis = moodAnalysis]
  /\ UNCHANGED <<storage, now, outcome, page>>

\* the request of an LLM stage fails: the catch block rethrows
StageRejects(g) ==
  /\ call[g].pc \in {"mood", "plan", "queries", "rank"}
  /\ call' = [call EXCEPT ![g].pc = "done"]
  /\ outcome' = [outcome EXCEPT !.results[g] = "error"]
  /\ UNCHANGED <<storage, now, page>>

\* the ranking answers: steps 7 and 8 and the return, for a final list of
\* finalTracks tracks
RankingReturns(g) ==
  /\ call[g].pc = "rank"
  /\ \E finalTracks \in 0..1 :
       /\ storage' = IF finalTracks > 0
                     THEN LearnFromGeneration(storage, now, call[g].prompt,
                                              call[g].moodAnalysis, call[g].preferences)
                     ELSE storage
       /\ outcome' = [outcome EXCEPT !.results[g] = "result", !.tracks[g] = finalTracks]
  /\ call' = [call EXCEPT ![g].pc = "done"]
  /\ UNCHANGED <<now, page>>

\* updatePreference of the hook: updatePreferenceSetting(key, value)
HookUpdatePreference ==
  /\ \E setting \in OverlapSettings :
       storage' = saveUserPreferences(storage, now,
                    Merge(loadUserPreferences(storage, now), setting))
  /\ UNCHANGED <<now, call, outcome, page>>

NextOverlap ==
  \/ \E g \in Generations : HookGenerate(g)
  \/ \E g \in Generations : StageReturns(g)
  \/ \E g \in Generations : StageRejects(g)
  \/ \E g \in Generations : RankingReturns(g)
  \/ HookUpdatePreference

SpecOverlap == InitOverlap /\ [][NextOverlap]_vars

(***************************************************************************)
(* Properties of the result of generatePlaylist.  They are stated on the   *)
(* inputs and the result recorded in `outcome`, with their own reading of  *)
(* the ranking response, not with the operators of the model.              *)
(***************************************************************************)
HasResult == outcome.kind = "result"

PoolIdsOf(lists) == UNION {{lists[q][i].id : i \in 1..Len(lists[q])} : q \in 1..Len(lists)}

DistinctPool == PoolIdsOf(outcome.candidatesByQuery)

\* the entries of a ranking response that is a JSON array of objects
RankedEntries ==
  IF /\ outcome.response.kind = "object"
     /\ outcome.response.tracks.t = "array"
     /\ \A i \in 1..Len(outcome.response.tracks.v) : outcome.response.tracks.v[i].t = "object"
  THEN outcome.response.tracks.v
  ELSE <<>>

\* the identifiers of the entries that resolve in the pool, in the LLM's order
RECURSIVE ResolvingIds(_, _)
ResolvingIds(entries, pool) ==
  IF entries = <<>> THEN <<>>
  ELSE IF Head(entries).spotifyId \in pool
       THEN <<Head(entries).spotifyId>> \o ResolvingIds(Tail(entries), pool)
       ELSE ResolvingIds(Tail(entries), pool)

ValidRanked == ResolvingIds(RankedEntries, DistinctPool)

NoDuplicateIds == \A i, j \in 1..Len(outcome.tracks) : i # j => outcome.tracks[i].id # outcome.tracks[j].id

InRange(x) == x.t = "number" /\ x.v \in 0..100

\* C1: every recommendation of a result has taste, mood and overall scores
\* that are numbers in [0,100], whatever the ranking response was.
C1_ScoresInRange ==
  HasResult =>
    \A i \in 1..Len(outcome.recommendations) :
      /\ InRange(outcome.recommendations[i].tasteAlignment.score)
      /\ InRange(outcome.recommendations[i].moodFit.score)
      /\ InRange(outcome.recommendations[i].overallMatch)

\* a result that ranks the entry whose scores are -20 and 150, clamped to 0 and 100
C1_Witness ==
  /\ HasResult
  /\ \E i \in 1..Len(RankedEntries) :
       RankedEntries[i].taste = Num(0 - 20) /\ RankedEntries[i].mood = Num(150)
  /\ \E i \in 1..Len(outcome.recommendations) :
       /\ outcome.recommendations[i].spotifyId = "t3"
       /\ outcome.recommendations[i].tasteAlignment.score = Num(0)
       /\ outcome.recommendations[i].moodFit.score = Num(100)

\* C2: when the pool has at least playlistLength distinct tracks and fewer
\* than playlistLength ranked entries resolve, the result has exactly
\* playlistLength tracks and no identifier twice.
C2_BackfillExactLength ==
  (HasResult /\ Cardinality(DistinctPool) >= outcome.playlistLength
             /\ Len(ValidRanked) < outcome.playlistLength)
    => (Len(outcome.tracks) = outcome.playlistLength /\ NoDuplicateIds)

\* C3: a result never has more than playlistLength tracks.
C3_AtMostPlaylistLength ==
  HasResult => Len(outcome.tracks) <= outcome.playlistLength

\* C4: when the pool has fewer than playlistLength distinct tracks, the call
\* returns a result, for every ranking response, and the result has as many
\* tracks as the pool has distinct ones.
C4_ShortPoolShortList ==
  (/\ outcome.kind \in {"result", "error"}
   /\ outcome.stage = "rank"
   /\ ~outcome.rejected
   /\ Cardinality(DistinctPool) < outcome.playlistLength)
    => (HasResult /\ Len(outcome.tracks) = Cardinality(DistinctPool))

\* C5: every track of a result is in the candidate pool, and the result
\* starts with the ranked entries that resolve in the pool, in the LLM's
\* order; entries without identifier or with an unknown one are dropped.
C5_RankedFromPoolInOrder ==
  HasResult =>
    /\ \A i \in 1..Len(outcome.tracks) : outcome.tracks[i].id \in DistinctPool
    /\ Len(outcome.tracks) >= Len(ValidRanked)
    /\ \A i \in 1..Len(ValidRanked) : outcome.tracks[i].id = ValidRanked[i]

\* a result whose response has an entry that does not resolve, two that do,
\* in another order than the pool's, and that was backfilled after them
C5_Witness ==
  /\ HasResult
  /\ Len(ValidRanked) = 2
  /\ Len(RankedEntries) > Len(ValidRanked)
  /\ ValidRanked[1] = "t3" /\ ValidRanked[2] = "t1"
  /\ Len(outcome.tracks) = 3
  /\ outcome.tracks[3].id = "t2"

\* C6: tracks and recommendations are index-aligned.
C6_IndexAligned ==
  HasResult =>
    /\ Len(outcome.recommendations) = Len(outcome.tracks)
    /\ \A i \in 1..Len(outcome.tracks) : outcome.recommendations[i].spotifyId = outcome.tracks[i].id

\* a result with a ranked and a backfilled track
C6_Witness ==
  /\ HasResult
  /\ Len(ValidRanked) = 1
  /\ Len(outcome.tracks) = 2

\* the play-frequency score as the specification words it: 100 when a recent
\* play contains the track name, else 60 when one contains an artist name
SpecPlayFrequency(track, recentlyPlayed) ==
  IF \E k \in 1..Len(recentlyPlayed) :
       includes(toLowerCase(recentlyPlayed[k]), toLowerCase(track.name))
  THEN 100
  ELSE IF \E k \in 1..Len(recentlyPlayed), a \in 1..Len(track.artists) :
            includes(toLowerCase(recentlyPlayed[k]), toLowerCase(track.artists[a]))
       THEN 60
       ELSE 0

\* the catalog's popularity field, 50 if absent
SpecPopularity(track) == IF track.popularity.t = "number" THEN track.popularity.v ELSE 50

\* round(0.30*taste + 0.30*mood + 0.25*popularity + 0.15*playFrequency), half up
SpecOverall(taste, mood, popularity, playFrequency) ==
  LET h == 30 * taste + 30 * mood + 25 * popularity + 15 * playFrequency
  IN IF h % 100 >= 50 THEN h \div 100 + 1 ELSE h \div 100

\* C7: the overall match of every track of a result is the weighted formula
\* over its stored taste and mood scores, the catalog popularity and the
\* play-frequency score; backfilled tracks have taste 70 and mood 75.
C7_OverallIsWeightedFormula ==
  HasResult =>
    \A i \in 1..Len(outcome.recommendations) :
      LET rec == outcome.recommendations[i]
          track == outcome.tracks[i]
      IN /\ rec.overallMatch =
              Num(SpecOverall(rec.tasteAlignment.score.v, rec.moodFit.score.v,
                              SpecPopularity(track),
                              SpecPlayFrequency(track, outcome.recentlyPlayed)))
         /\ i > outcome.rankedCount =>
              (rec.tasteAlignment.score = Num(70) /\ rec.moodFit.score = Num(75))

\* the recommendations of the documented example: taste 90, mood 85,
\* popularity 75, play-frequency score 100
IsWorkedExample(i) ==
  /\ outcome.recommendations[i].tasteAlignment.score = Num(90)
  /\ outcome.recommendations[i].moodFit.score = Num(85)
  /\ outcome.tracks[i].popularity = Num(75)
  /\ SpecPlayFrequency(outcome.tracks[i], outcome.recentlyPlayed) = 100

RegenerateStep ==
  /\ call.pc = "idle"
  /\ outcome'.via = "regenerate"
  /\ (call' # call \/ outcome' # outcome)

\* the store holds no prompt: nothing was saved, the item was removed, or it
\* has expired
NoPromptStored ==
  \/ ~storage.present
  \/ now >= storage.expiry
  \/ storage.value.lastPrompt.t = "undefined"

\* C9: regeneratePlaylist called while no prompt is stored fails with the
\* no-previous-generation error, starts no pipeline stage and writes nothing.
C9_RegenerateWithoutPrompt ==
  [][(RegenerateStep /\ NoPromptStored) =>
       /\ outcome'.kind = "error"
       /\ outcome'.error = NoPreviousError
       /\ outcome'.error # GenericError
       /\ call' = call
       /\ storage' = storage]_vars

\* regeneratePlaylist has failed so on an item that holds a prompt but expired
C9_Witness ==
  /\ outcome.kind = "error"
  /\ outcome.via = "regenerate"
  /\ outcome.error = NoPreviousError
  /\ storage.present
  /\ storage.value.lastPrompt = Str("late night chill")
  /\ now >= storage.expiry

\* C10: a regeneratePlaylist that follows a generatePlaylist(p) that returned
\* a result while learning from it starts the pipeline with the prompt p.
C10_RegenerateReusesPrompt ==
  [][(outcome.kind = "result" /\ outcome.usePreferences /\ RegenerateStep) =>
       /\ outcome'.kind = "pending"
       /\ call'.pc = "taste"
       /\ call'.via = "regenerate"
       /\ call'.prompt = outcome.prompt]_vars

(***************************************************************************)
(* Properties of the learning update (step 8) and of the preference store. *)
(***************************************************************************)
\* a step in which a generatePlaylist call returns its result
ReturnsResult == call.pc = "rank" /\ outcome'.kind = "result"

\* 10 * clamp[lo, hi](0.7 * old + 0.3 * new), old in units of 1 / PrefScale and
\* new in tenths
TenTimesBlended(old, newTenths, lo, hi) ==
  Max(10 * lo, Min(10 * hi, 7 * old + 3 * newTenths * (PrefScale \div 10)))

InSeq(s, x) == \E i \in 1..Len(s) : s[i] = x

\* what the learning update of a generation with this mood and prompt leaves
\* in the store, given the preferences loaded before it
LearnedFrom(old, new, mood, prompt, generationsBefore) ==
  /\ 10 * new.energyPreference = TenTimesBlended(old.energyPreference, mood.endPoint.energy, 0, PrefScale)
  /\ 10 * new.valencePreference =
       TenTimesBlended(old.valencePreference, mood.endPoint.valence, 0 - PrefScale, PrefScale)
  /\ \A i \in 1..Len(mood.suggestedGenres) : InSeq(new.favoriteGenres, mood.suggestedGenres[i])
  /\ InSeq(new.preferredVibes, mood.moodDescription)
  /\ new.lastPrompt = [t |-> "string", v |-> prompt]
  /\ new.totalGenerations = generationsBefore + 1

\* C11: when a generatePlaylist call with usePreferences = true returns a
\* result, the stored preferences are the blend of the old ones with the
\* mood's end point, hold the mood's genres and description, the prompt, and
\* a totalGenerations one higher than the call read.
C11_LearnsOnEverySuccess ==
  [][(ReturnsResult /\ call.usePreferences) =>
       LearnedFrom(loadUserPreferences(storage, now), loadUserPreferences(storage', now'),
                   call.moodAnalysis, call.prompt, call.preferences.totalGenerations)]_vars

LLMStages == {"mood", "plan", "queries", "rank"}

\* C12: a generatePlaylist call in which the request of an LLM stage failed
\* has ended with the generic error and without tracks or recommendations,
\* whichever stage it was.
C12_StageFailureIsGeneric ==
  outcome.rejected =>
    /\ outcome.stage \in LLMStages
    /\ outcome.kind = "error"
    /\ outcome.error = GenericError
    /\ outcome.tracks = <<>>
    /\ outcome.recommendations = <<>>
    /\ call.pc = "idle"

\* the ranking request failed after every earlier stage had completed and
\* candidates had been found
C12_Witness ==
  /\ outcome.rejected
  /\ outcome.stage = "rank"
  /\ outcome.candidatesByQuery # <<>>
  /\ outcome.kind = "error"

\* what loadUserPreferences returns in the current state
Loaded == loadUserPreferences(storage, now)

\* C13: in every reachable state of the store the loaded preferences have
\* energyPreference in [0,1], valencePreference in [-1,1], at most
\* maxSavedVibes preferred vibes and at most maxFavoriteGenres favorite genres.
C13_StoreInvariants ==
  /\ Loaded.energyPreference >= 0
  /\ Loaded.energyPreference <= PrefScale
  /\ Loaded.valencePreference >= 0 - PrefScale
  /\ Loaded.valencePreference <= PrefScale
  /\ Len(Loaded.preferredVibes) <= maxSavedVibes
  /\ Len(Loaded.favoriteGenres) <= maxFavoriteGenres

\* C14: the playlist length a generation in flight works with is an integer
\* within the configured limits minTracks..maxTracks.
C14_PlaylistLengthWithinLimits ==
  call.pc # "idle" =>
    /\ call.preferences.playlistLength >= minTracks
    /\ call.preferences.playlistLength <= maxTracks

\* the stored item is read back: every field it holds is loaded as stored
LoadsSaved == \A k \in DOMAIN storage.value : Loaded[k] = storage.value[k]

\* C15: a load once the TTL has elapsed since the last save returns exactly
\* the defaults, a load before that returns the saved values, and every
\* save restarts the TTL window.
C15_TTLExpiry ==
  /\ [](storage.present =>
          IF now >= storage.expiry THEN Loaded = getDefaultPreferences ELSE LoadsSaved)
  /\ [][(storage' # storage /\ storage'.present) =>
          storage'.expiry = now + PREFERENCES_TTL]_vars

\* a generation was learned from and its TTL has elapsed: the store still
\* holds the stale item and the load returns the defaults
C15_Witness ==
  /\ storage.present
  /\ now >= storage.expiry
  /\ storage.value.lastPrompt = Str("workout")
  /\ storage.value.totalGenerations > 0
  /\ Loaded = getDefaultPreferences

\* a step that is a call of saveUserPreferences
SaveStep ==
  /\ outcome'.via = "saveUserPreferences"
  /\ (storage' # storage \/ outcome' # outcome)

\* C16: a load right after saveUserPreferences(partial) returns partial's
\* value for every field partial names and, for every other field, what a
\* load returned right before the save.
C16_SaveChangesOnlyNamedFields ==
  [][SaveStep =>
       \E partial \in StorePartials :
         \A k \in DOMAIN getDefaultPreferences :
           loadUserPreferences(storage', now')[k] =
             IF k \in DOMAIN partial THEN partial[k] ELSE Loaded[k]]_vars

\* a save of the discovery level on a store that a generation has written
\* and whose energy preference an earlier save has set
C16_Witness ==
  /\ outcome.via = "saveUserPreferences"
  /\ Loaded.discoveryLevel = "familiar"
  /\ Loaded.energyPreference = (15 * PrefScale) \div 10
  /\ Loaded.lastPrompt = Str("workout")
  /\ Loaded.totalGenerations = 1

(***************************************************************************)
(* Properties of the music plan.                                           *)
(***************************************************************************)
HasPlan == call.pc \in {"queries", "search", "rank"}

\* C17: every plan that deriveMusicPlan returns has familiarPercent and
\* discoveryPercent that add up to 100.
C17_DiscoveryBalanceAddsUp ==
  HasPlan =>
    /\ call.musicPlan.discoveryBalance.familiarPercent.t = "number"
    /\ call.musicPlan.discoveryBalance.discoveryPercent.t = "number"
    /\ call.musicPlan.discoveryBalance.familiarPercent.v
         + call.musicPlan.discoveryBalance.discoveryPercent.v = 100

(***************************************************************************)
(* Properties of the mood analysis.                                        *)
(***************************************************************************)
\* the call got a response of the mood-analysis request
MoodResponded == outcome.kind \in {"result", "error"} /\ outcome.moodResponse # "none"

\* C18: whatever the content of the mood response, analyzeMoodFromChat
\* returns a mood analysis with every required field, and the call does not
\* fail on the mood it was handed.
C18_MoodAlwaysUsable ==
  MoodResponded =>
    /\ MoodFields \subseteq outcome.moodAnalysis.present
    /\ ~(outcome.kind = "error" /\ outcome.stage = "mood" /\ ~outcome.rejected)

\* every stage after the mood analysis responded, with a response it could use
OtherStagesResponded ==
  /\ ~outcome.rejected
  /\ ~(outcome.kind = "error" /\ outcome.stage \in {"plan", "queries", "rank"})

\* C19: when the mood response is not JSON and the other stages respond,
\* generatePlaylist returns a result whose moodAnalysis is the static
\* fallback: valence 0, energy 0.5, a follow-up question that is not empty.
C19_NonJsonMoodFallsBack ==
  (MoodResponded /\ outcome.moodResponse = "text" /\ OtherStagesResponded) =>
    /\ outcome.kind = "result"
    /\ outcome.moodAnalysis.startPoint = [valence |-> 0, energy |-> 5]
    /\ outcome.moodAnalysis.endPoint = [valence |-> 0, energy |-> 5]
    /\ outcome.moodAnalysis.shouldAskFollowUp
    /\ outcome.moodAnalysis.followUpQuestion # ""

\* a generation with a non-JSON mood response has returned tracks
C19_Witness ==
  /\ outcome.kind = "result"
  /\ outcome.moodResponse = "text"
  /\ Len(outcome.tracks) > 0

\* a step in which generatePlaylist is entered
StartsAttempt == call.pc = "idle" /\ call'.pc # "idle"

\* the last generation attempt threw or returned no track
LastAttemptFailed ==
  \/ outcome.kind = "error"
  \/ outcome.kind = "result" /\ Len(outcome.tracks) = 0

\* C20: after a generation attempt has failed or returned zero tracks, the
\* page starts a further attempt only if the user has acted since the failed
\* attempt was started; a failure alone starts no attempt.
C20_NoAutomaticRetry ==
  [][(StartsAttempt /\ LastAttemptFailed) => page.userActed]_vars

\* C21: the popularity term of the overall match of every emitted track,
\* ranked or backfilled, is the catalog popularity of the track when the
\* catalog supplies one, 0 included, and 50 only when the field is absent.
C21_PopularityTermIsCatalog ==
  HasResult =>
    \A i \in 1..Len(outcome.recommendations) :
      LET rec == outcome.recommendations[i]
          track == outcome.tracks[i]
      IN rec.overallMatch =
           Num(calculateOverallMatch(rec.tasteAlignment.score.v, rec.moodFit.score.v,
                                     SpecPopularity(track), track.name,
                                     ArtistNames(track), outcome.recentlyPlayed))

\* the recent-play lists that hold the same lines as `recentlyPlayed`, in any order
Reorderings(recentlyPlayed) ==
  {other \in RecentLists :
     /\ Len(other) = Len(recentlyPlayed)
     /\ \A line \in RecentLines :
          Cardinality({k \in 1..Len(other) : other[k] = line})
            = Cardinality({k \in 1..Len(recentlyPlayed) : recentlyPlayed[k] = line})}

ExplicitRequestPriority == "match the explicit request exactly"

\* the plan response named no rankingPriorities: not JSON, or JSON without the field
WithoutPriorities == call.planResponse.rankingPriorities.t = "undefined"

\* C23: the first ranking priority of every plan that deriveMusicPlan returns
\* for a response without rankingPriorities, the fallback plan of a parse
\* failure included, is the priority to match the explicit request exactly.
C23_FirstPriorityIsExplicitRequest ==
  (HasPlan /\ WithoutPriorities) =>
    /\ Len(call.musicPlan.rankingPriorities) > 0
    /\ call.musicPlan.rankingPriorities[1] = ExplicitRequestPriority

\* the tracks the returned map holds under `query`
TracksUnder(query) ==
  IF \E k \in 1..Len(call.results) : call.results[k].query = query
  THEN (CHOOSE entry \in {call.results[k] : k \in 1..Len(call.results)} :
          entry.query = query).tracks
  ELSE <<>>

SomeSearchFailed == \E k \in 1..Len(outcome.responses) : outcome.responses[k].failed

\* C24: when the search of a query fails, every query is still searched, a
\* query whose searches all failed has no candidates in the returned map,
\* and the items of every search that succeeded are in the returned map
\* under its query.
C24_SearchFailureIsLocal ==
  (outcome.kind = "map" /\ SomeSearchFailed) =>
    /\ Len(outcome.responses) = Len(call.searchQueries)
    /\ \A k \in 1..Len(call.searchQueries) :
         LET response == outcome.responses[k]
             query == call.searchQueries[k]
         IN /\ (\A j \in 1..Len(call.searchQueries) :
                  call.searchQueries[j] = query => outcome.responses[j].failed)
               => TracksUnder(query) = <<>>
            /\ (~response.failed /\ Len(response.items) > 0)
               => \A n \in 1..Len(response.items) : InSeq(TracksUnder(query), response.items[n])

\* C25: at every hour of the day the timeOfDay of the context that
\* generatePlaylist builds is the label of getTimeOfDay: morning for [5,12),
\* afternoon for [12,17), evening for [17,21), night otherwise.
C25_TimeOfDayAgrees ==
  outcome.kind = "context" => outcome.timeOfDay = getTimeOfDay(call.hour)

\* what the five requests delivered
Delivered == [fetch \in Fetches |-> call.responses[fetch].items]

ProfileBuilt == outcome.kind = "profile" /\ ~BuildThrows

NoSourceData == \A fetch \in Fetches : Delivered[fetch] = <<>>

\* C26: a profile built without source data, every request having failed or
\* delivered no item, has confidence 0, energy, valence and danceability
\* 0.5, acousticness 0.3 and tempo range 90-140.
C26_NoDataIsEmptyProfile ==
  (ProfileBuilt /\ NoSourceData) =>
    /\ outcome.profile.confidence = 0
    /\ outcome.profile.tasteVectors.avgEnergy = 50
    /\ outcome.profile.tasteVectors.avgValence = 50
    /\ outcome.profile.tasteVectors.avgDanceability = 50
    /\ outcome.profile.tasteVectors.avgAcousticness = 30
    /\ outcome.profile.tasteVectors.tempoRange = [min |-> 90, max |-> 140]

\* the items of the requests that succeeded, none for a request that failed
Successful ==
  [fetch \in Fetches |->
     IF call.responses[fetch].status = "fulfilled" THEN call.responses[fetch].items ELSE <<>>]

\* C27: whichever of the five requests fail and in whatever order they are
\* answered, fetchUserTasteProfile returns a profile and never an error,
\* returns it only after all five are answered, and returns the profile
\* built from the items of the requests that succeeded, a failed request
\* counting as empty.
C27_FailedFetchDegradesToEmpty ==
  [][(outcome.kind = "pending" /\ outcome'.kind # "pending") =>
       /\ outcome'.kind = "profile"
       /\ AllSettled
       /\ ~BuildThrows => outcome'.profile = BuildProfile(Successful)]_vars

\* a profile returned after recently played was answered first, one artist
\* request failed and the other delivered artists
C27_Witness ==
  /\ outcome.kind = "profile"
  /\ call.settled[1] = "recentlyPlayedData"
  /\ call.responses.topArtistsShort.status = "rejected"
  /\ call.responses.topArtistsLong.items = <<Artist1, Artist2>>
  /\ call.responses.topTracksLong.status = "rejected"
  /\ outcome.profile.topArtists = <<"a1", "a2">>
  /\ outcome.profile.confidence = 180

\* both calls returned a result that was learned from
BothLearned ==
  \A g \in Generations : outcome.results[g] = "result" /\ outcome.tracks[g] > 0

\* C28: when two generatePlaylist calls with usePreferences true overlap and
\* both succeed, totalGenerations ends two higher than before them, and the
\* learning update of a generation keeps the settings that
\* updatePreferenceSetting stored while the generation was in flight.
C28_NoLostUpdate ==
  [][\A g \in Generations :
       (call[g].pc = "rank" /\ outcome'.results[g] = "result" /\ outcome'.tracks[g] > 0) =>
         /\ (BothLearned' /\ outcome'.overlapped) => Loaded'.totalGenerations = 2
         /\ Loaded'.playlistLength = Loaded.playlistLength
         /\ Loaded'.discoveryLevel = Loaded.discoveryLevel
         /\ Loaded'.explicitContent = Loaded.explicitContent]_vars

\* the usePreferences argument of the call that takes the step
StepUsesPreferences == IF call.pc = "idle" THEN call'.usePreferences ELSE call.usePreferences

\* C29: no step of a generatePlaylist call made with usePreferences false,
\* and no step of a call that rejects, changes the stored preferences: only
\* the successful return of a call with usePreferences true writes.
C29_StoreUntouchedWithoutLearning ==
  [][(call' # call /\ ~(StepUsesPreferences /\ outcome'.kind = "result")) =>
       storage' = storage]_vars

\* a call without preferences returned tracks while the store holds what an
\* earlier call with another prompt learned
C29_Witness ==
  /\ outcome.kind = "result"
  /\ ~outcome.usePreferences
  /\ Len(outcome.tracks) > 0
  /\ storage.present
  /\ Loaded.totalGenerations = 1
  /\ Loaded.lastPrompt # Str(outcome.prompt)

SomeMoodRequestPending == \E thunk \in MoodThunks : page.requests[thunk] > 0

\* C30: isTyping is true only while a mood request is pending, and when a
\* sendChatMessage, selectEmotionFromMap or selectQuickVibe request settles,
\* fulfilled or rejected, isTyping becomes false.
C30_TypingEndsWhenRequestSettles ==
  [][/\ (\E thunk \in MoodThunks : page'.requests[thunk] < page.requests[thunk])
          => ~page'.moodMusic.isTyping
     /\ page'.moodMusic.isTyping => SomeMoodRequestPending']_vars

====
